---------------------------- MODULE Spec2Model ----------------------------
(***************************************************************************)
(* A model of the cofiblocks-contract command line client: the main        *)
(* dispatch (main.rs), deploy_contract / show_contract / watch_tx and the  *)
(* calldata encoders (lib.rs), and the U256 Cairo serialisation (u256.rs). *)
(*                                                                         *)
(* Numbers wider than a machine word are kept as big-endian sequences of   *)
(* 16-bit limbs: a u64 is 4 limbs, a u128 is 8 limbs, a field element      *)
(* (felt) is 16 limbs.  Strings are sequences of one-character strings.    *)
(***************************************************************************)
EXTENDS Integers, Sequences, FiniteSets, TLC

(***************************************************************************)
(* Bounds of the model.                                                    *)
(***************************************************************************)
\* Longest token list a spec file of the model holds.
MaxTokens == 2
\* The poll and sleep counters saturate here (the loop itself is unbounded).
MaxPolls == 3
\* Longest felt buffer handed to U256::cairo_deserialize.
MaxBuf == 3

(***************************************************************************)
(* Limb arithmetic.                                                        *)
(***************************************************************************)
\* A limb holds 16 bits.
LimbBase == 256 * 256

Zeros(n) == [i \in 1..n |-> 0]

\* The k-limb big-endian representation of the natural number n (n < LimbBase^k).
RECURSIVE NatToLimbs(_, _)
NatToLimbs(n, k) ==
    IF k = 0 THEN <<>> ELSE Append(NatToLimbs(n \div LimbBase, k - 1), n % LimbBase)

\* Lexicographic (= numeric) order on limb sequences of equal length.
RECURSIVE LimbsLess(_, _)
LimbsLess(a, b) ==
    IF Len(a) = 0 THEN FALSE
    ELSE IF a[1] # b[1] THEN a[1] < b[1]
    ELSE LimbsLess(Tail(a), Tail(b))

\* u128::from_be_bytes on 16 bytes: two bytes per limb.
U128FromBeBytes(bytes) == [i \in 1..8 |-> 256 * bytes[2 * i - 1] + bytes[2 * i]]

\* `value as u128` for a u64: zero extension.
U64AsU128(v) == Zeros(4) \o v

\* FieldElement::from(u128).
FeltFromU128(v) == Zeros(8) \o v

\* FieldElement::from(usize) of a length.
FeltFromUsize(n) == NatToLimbs(n, 16)

\* The Stark field prime 2^251 + 17 * 2^192 + 1.
FeltPrime == <<2048, 0, 0, 17, 0, 0, 0, 0, 0, 0, 0, 0, 0, 0, 0, 1>>

\* u128::try_from(FieldElement): the value when it fits 128 bits.
FeltFitsU128(f) == SubSeq(f, 1, 8) = Zeros(8)
FeltToU128(f) == SubSeq(f, 9, 16)

(***************************************************************************)
(* Hexadecimal parsing.                                                    *)
(***************************************************************************)
Str(c, n) == [i \in 1..n |-> c]

\* The value of a hex digit, 16 for a character that is none.
HexVal(c) ==
    CASE c = "0" -> 0 [] c = "1" -> 1 [] c = "2" -> 2 [] c = "3" -> 3
      [] c = "4" -> 4 [] c = "5" -> 5 [] c = "6" -> 6 [] c = "7" -> 7
      [] c = "8" -> 8 [] c = "9" -> 9
      [] c \in {"a", "A"} -> 10 [] c \in {"b", "B"} -> 11
      [] c \in {"c", "C"} -> 12 [] c \in {"d", "D"} -> 13
      [] c \in {"e", "E"} -> 14 [] c \in {"f", "F"} -> 15
      [] OTHER -> 16

\* hex::decode_to_slice(s, out) with out of n bytes: whether it returns Ok
\* (an even length, exactly 2n characters, every one a hex digit) ...
HexDecodeOk(s, n) ==
    /\ Len(s) % 2 = 0
    /\ Len(s) \div 2 = n
    /\ \A i \in 1..Len(s) : HexVal(s[i]) # 16

\* ... and the bytes it then leaves in out.
HexDecodeToSlice(s, n) == [i \in 1..n |-> 16 * HexVal(s[2 * i - 1]) + HexVal(s[2 * i])]

\* A string without its leading "0x".
StripHexPrefix(s) ==
    IF Len(s) >= 2 /\ s[1] = "0" /\ s[2] = "x" THEN SubSeq(s, 3, Len(s)) ELSE s

\* The felt of 32 big-endian bytes: two bytes per limb.
FeltFromBytesBe(bytes) == [i \in 1..16 |-> 256 * bytes[2 * i - 1] + bytes[2 * i]]

\* FieldElement::from_hex_be(s) on the digits left-padded to 64.
FeltFromHexBe(s) ==
    LET h == StripHexPrefix(s)
    IN  FeltFromBytesBe(HexDecodeToSlice(Str("0", 64 - Len(h)) \o h, 32))

\* Whether FieldElement::from_hex_be(s) is Ok: at most 64 digits, all of them
\* hex digits, and a value below the field prime.
FeltFromHexBeOk(s) ==
    LET h == StripHexPrefix(s)
    IN  /\ Len(h) <= 64
        /\ \A i \in 1..Len(h) : HexVal(h[i]) # 16
        /\ LimbsLess(FeltFromHexBe(s), FeltPrime)

(***************************************************************************)
(* U256 (u256.rs) and the Cairo serialisation of vectors.                  *)
(***************************************************************************)
\* struct U256 { low, high }, each a u128.
MkU256(low, high) == [low |-> low, high |-> high]

\* U256::cairo_serialize: the felt of low, then the felt of high.
U256CairoSerialize(u) == <<FeltFromU128(u.low)>> \o <<FeltFromU128(u.high)>>

\* U256::cairo_deserialize(felts, offset).
U256CairoDeserialize(felts, offset) ==
    IF offset >= Len(felts) THEN [kind |-> "ErrDeserialize"]
    ELSE IF ~FeltFitsU128(felts[offset + 1]) THEN [kind |-> "PanicUnwrap"]
    ELSE IF offset + 1 >= Len(felts) THEN [kind |-> "PanicIndex"]
    ELSE IF ~FeltFitsU128(felts[offset + 2]) THEN [kind |-> "PanicUnwrap"]
    ELSE [kind |-> "Ok",
          value |-> MkU256(FeltToU128(felts[offset + 1]), FeltToU128(felts[offset + 2]))]

\* The concatenation of a sequence of felt sequences.
RECURSIVE Flatten(_)
Flatten(ss) == IF Len(ss) = 0 THEN <<>> ELSE ss[1] \o Flatten(Tail(ss))

\* Vec::<U256>::cairo_serialize: the length, then every element.
VecU256CairoSerialize(us) ==
    <<FeltFromUsize(Len(us))>> \o Flatten([i \in 1..Len(us) |-> U256CairoSerialize(us[i])])

\* Vec::<FieldElement>::cairo_serialize: the length, then every felt.
VecFeltCairoSerialize(fs) == <<FeltFromUsize(Len(fs))>> \o fs


(***************************************************************************)
(* ByteArray (cainome_cairo_serde), as lib.rs uses it for base_uri.        *)
(***************************************************************************)
\* The felt of at most 31 big-endian bytes.
FeltFromByteSlice(bytes) == FeltFromBytesBe(Zeros(32 - Len(bytes)) \o bytes)

\* ByteArray::from_string then ByteArray::cairo_serialize: the number of full
\* 31-byte words, the words, the pending word and the pending word's length.
ByteArraySerialize(bytes) ==
    LET full == Len(bytes) \div 31
        rest == Len(bytes) % 31
        data == [i \in 1..full |-> FeltFromByteSlice(SubSeq(bytes, 31 * (i - 1) + 1, 31 * i))]
        pending == FeltFromByteSlice(SubSeq(bytes, 31 * full + 1, Len(bytes)))
    IN  VecFeltCairoSerialize(data) \o <<pending>> \o <<FeltFromUsize(rest)>>

(***************************************************************************)
(* tokens_to_felts and the calldata builders of lib.rs.                    *)
(***************************************************************************)
\* The U256 tokens_to_felts builds from one token name (32 decoded bytes).
TokenU256(token_name) ==
    LET bytes == HexDecodeToSlice(token_name, 32)
    IN  [high |-> U128FromBeBytes(SubSeq(bytes, 17, 32)),
         low |-> U128FromBeBytes(SubSeq(bytes, 1, 16))]

\* Whether every hex::decode_to_slice(..).unwrap() of tokens_to_felts passes.
TokensToFeltsOk(token_names) ==
    \A i \in 1..Len(token_names) : HexDecodeOk(token_names[i], 32)

tokens_to_felts(token_names) ==
    VecU256CairoSerialize([i \in 1..Len(token_names) |-> TokenU256(token_names[i])])

\* A variant of TokenValues that pushes the values in reverse order.
TokenValuesReversed(tokens) ==
    [i \in 1..Len(tokens) |->
        [high |-> Zeros(8), low |-> U64AsU128(tokens[Len(tokens) + 1 - i].value)]]

\* The values vector of deploy_contract: one U256 per token, high 0.
TokenValues(tokens) ==
    [i \in 1..Len(tokens) |-> [high |-> Zeros(8), low |-> U64AsU128(tokens[i].value)]]

\* The token names of a spec, in spec order.
TokenNamesOf(tokens) == [i \in 1..Len(tokens) |-> tokens[i].name]

\* ctor_args of deploy_contract.
CtorArgs(cspec, recipient_arg) ==
    ByteArraySerialize(cspec.base_uri)
        \o <<FeltFromHexBe(recipient_arg)>>
        \o tokens_to_felts(TokenNamesOf(cspec.tokens))
        \o VecU256CairoSerialize(TokenValues(cspec.tokens))

\* calldata of show_contract.
ShowCalldata(account_strs, token_names) ==
    VecFeltCairoSerialize([i \in 1..Len(account_strs) |-> FeltFromHexBe(account_strs[i])])
        \o tokens_to_felts(token_names)

(***************************************************************************)
(* FieldElement::from_str, used for the signing account's address.         *)
(***************************************************************************)
RECURSIVE DecNat(_)
DecNat(s) == IF Len(s) = 0 THEN 0 ELSE 10 * DecNat(SubSeq(s, 1, Len(s) - 1)) + HexVal(s[Len(s)])

HasHexPrefix(s) == Len(s) >= 2 /\ s[1] = "0" /\ s[2] = "x"

FeltFromStrOk(s) ==
    IF HasHexPrefix(s) THEN FeltFromHexBeOk(s)
    ELSE Len(s) >= 1 /\ \A i \in 1..Len(s) : HexVal(s[i]) < 10

FeltFromStr(s) == IF HasHexPrefix(s) THEN FeltFromHexBe(s) ELSE NatToLimbs(DecNat(s), 16)

(***************************************************************************)
(* The inputs of the model: command lines, spec files, provider answers.   *)
(***************************************************************************)
\* Token names: 1, 2^128, a number with both halves set, and a name that is
\* two digits short.
NameOne == Str("0", 63) \o <<"1">>
NameHigh == Str("0", 31) \o <<"1">> \o Str("0", 32)
NameMixed == <<"a", "B">> \o Str("0", 60) \o <<"c", "d">>
NameShort == Str("0", 62)
TokenNames == {NameOne, NameHigh, NameMixed, NameShort}

\* [[tokens]] entries of a spec file: name and u64 value (4 limbs).
TokenInfos ==
    { [name |-> NameOne, value |-> <<0, 0, 0, 100>>],
      [name |-> NameHigh, value |-> <<65535, 65535, 65535, 65535>>],
      [name |-> NameMixed, value |-> <<0, 0, 1, 0>>],
      [name |-> NameShort, value |-> <<0, 0, 0, 1>>] }

\* base_uri values, as bytes: 2, 31 and 33 bytes long.
BaseUris == {<<104, 116>>, [i \in 1..31 |-> 97], [i \in 1..33 |-> 98]}

SeqsUpTo(S, n) == UNION {[1..k -> S] : k \in 0..n}

ContractSpecs == [base_uri : BaseUris, tokens : SeqsUpTo(TokenInfos, MaxTokens)]

NoSpec == [base_uri |-> <<>>, tokens |-> <<>>]

\* Hex arguments: a felt, a string with a character that is no digit, and a
\* 256-bit value above the field prime.
HexOne == <<"0", "x", "1">>
HexBadChar == <<"0", "x", "g">>
HexTooBig == <<"0", "x">> \o Str("f", 64)
HexArgs == {HexOne, HexBadChar, HexTooBig}
AddressArgs == {HexOne, <<"4", "2">>, HexBadChar}

Networks == {"Mainnet", "Sepolia"}

NoArgs == [contract_address |-> <<>>, account |-> <<>>, token |-> <<>>,
           address |-> <<>>, recipient |-> <<>>]

\* The command lines clap accepts (main.rs, Commands).
CommandLines ==
    { [command |-> "ShowAll", args |-> [NoArgs EXCEPT !.contract_address = c, !.account = a]]
        : c \in HexArgs, a \in HexArgs }
    \cup
    { [command |-> "Show",
       args |-> [NoArgs EXCEPT !.contract_address = ca[1], !.account = ca[2], !.token = t]]
        : ca \in HexArgs \X HexArgs, t \in TokenNames }
    \cup
    { [command |-> "Deploy", args |-> [NoArgs EXCEPT !.address = a, !.recipient = r]]
        : a \in AddressArgs, r \in HexArgs }

\* Transaction hashes the provider hands out.
TxHashes == {1, 2}

\* Answers to get_transaction_receipt: a receipt (Succeeded, or Reverted with
\* a reason), StarknetError::TransactionHashNotFound, or another error.
RevertReasons == {"out of gas", "assert failed"}
NoAnswer == [kind |-> "None", reason |-> ""]
ReceiptAnswers ==
    { [kind |-> "Succeeded", reason |-> ""],
      [kind |-> "TransactionHashNotFound", reason |-> ""],
      [kind |-> "BlockNotFound", reason |-> ""],
      [kind |-> "RateLimited", reason |-> ""] }
    \cup { [kind |-> "Reverted", reason |-> r] : r \in RevertReasons }

\* Results of the balance_of_batch call.
FeltOne == FeltFromUsize(1)
FeltBig == FeltFromUsize(70000)
CallResults == {<<>>, <<FeltOne>>, <<FeltOne, FeltBig>>}

Inc(n) == IF n < MaxPolls THEN n + 1 ELSE MaxPolls

(***************************************************************************)
(* State.                                                                  *)
(***************************************************************************)
VARIABLES
    pc,                 \* where the program is
    command, network, args,     \* the parsed command line
    spec,               \* the ContractSpec read from the spec file
    accounts, tokens,   \* show_contract's parameters
    calldata,           \* show_contract's calldata
    ctor_args,          \* deploy_contract's constructor arguments
    panic_msg,          \* the panic that ended the run, "" when none
    stdout,             \* lines printed to stdout
    keystore_checked, password_prompted, keystore_read,
    calls, estimates, sends, polls, sleeps,     \* RPC requests and sleeps so far
    estimated_fee,      \* the answer to estimate_fee: "None", "Ok" or "Err"
    sleeps_since_request,
    deployment_tx,      \* the hash send() returned, 0 before
    request_hash,       \* the hash of the last receipt request, 0 before
    answer,             \* the provider's last answer to a receipt request
    watch_result,       \* what watch_tx returned
    felts, offset, deserialized     \* U256::cairo_deserialize's arguments and result

vars == <<pc, command, network, args, spec, accounts, tokens, calldata, ctor_args,
          panic_msg, stdout, keystore_checked, password_prompted, keystore_read,
          calls, estimates, sends, polls, sleeps, estimated_fee, sleeps_since_request,
          deployment_tx, request_hash, answer, watch_result,
          felts, offset, deserialized>>

cliVars == <<command, network, args>>
keystoreVars == <<keystore_checked, password_prompted, keystore_read>>
rpcVars == <<calls, estimates, sends, polls, sleeps, estimated_fee, sleeps_since_request,
             deployment_tx, request_hash, answer, watch_result>>
deployVars == <<ctor_args, keystoreVars, estimates, sends, polls, sleeps, estimated_fee,
                sleeps_since_request, deployment_tx, request_hash, answer, watch_result>>
serdeVars == <<felts, offset, deserialized>>

NoResult == [kind |-> "None", reason |-> ""]
NotDeserialized == [kind |-> "None"]

Init ==
    /\ pc = "main"
    /\ \E cl \in CommandLines : command = cl.command /\ args = cl.args
    /\ network \in Networks
    /\ spec = NoSpec
    /\ accounts = <<>>
    /\ tokens = <<>>
    /\ calldata = <<>>
    /\ ctor_args = <<>>
    /\ panic_msg = ""
    /\ stdout = <<>>
    /\ keystore_checked = FALSE
    /\ password_prompted = FALSE
    /\ keystore_read = FALSE
    /\ calls = 0 /\ estimates = 0 /\ sends = 0 /\ polls = 0 /\ sleeps = 0
    /\ estimated_fee = "None"
    /\ sleeps_since_request = 0
    /\ deployment_tx = 0
    /\ request_hash = 0
    /\ answer = NoAnswer
    /\ watch_result = NoResult
    /\ felts = <<>>
    /\ offset = 0
    /\ deserialized = NotDeserialized

\* A panic: the message is recorded and the process ends.
Panic(msg) == pc' = "panicked" /\ panic_msg' = msg

(***************************************************************************)
(* main (main.rs).                                                         *)
(***************************************************************************)
Line(text, felt, comma) == [text |-> text, felt |-> felt, comma |-> comma]
TextLine(text) == Line(text, Zeros(16), FALSE)

\* Commands::ShowAll: load the spec file, then show every token of it for the
\* one account given.
MainShowAll ==
    /\ pc = "main"
    /\ command = "ShowAll"
    /\ \/ Panic("Spec file not found") /\ UNCHANGED <<spec, accounts, tokens>>
       \/ Panic("unwrap: read_to_string") /\ UNCHANGED <<spec, accounts, tokens>>
       \/ Panic("unwrap: toml::from_str") /\ UNCHANGED <<spec, accounts, tokens>>
       \/ \E s \in ContractSpecs :
            /\ spec' = s
            /\ tokens' = TokenNamesOf(s.tokens)
            /\ accounts' = <<args.account>>
            /\ pc' = "show_contract"
            /\ UNCHANGED panic_msg
    /\ UNCHANGED <<cliVars, calldata, ctor_args, stdout, keystoreVars, rpcVars, serdeVars>>

\* Commands::Show: one account, one token.
MainShow ==
    /\ pc = "main"
    /\ command = "Show"
    /\ accounts' = <<args.account>>
    /\ tokens' = <<args.token>>
    /\ pc' = "show_contract"
    /\ UNCHANGED <<cliVars, spec, calldata, ctor_args, panic_msg, stdout, keystoreVars,
                   rpcVars, serdeVars>>

\* Commands::Deploy: load the spec file, print the parse result, deploy.
MainDeploy ==
    /\ pc = "main"
    /\ command = "Deploy"
    /\ \/ Panic("Spec file not found") /\ UNCHANGED <<spec, stdout>>
       \/ Panic("unwrap: read_to_string") /\ UNCHANGED <<spec, stdout>>
       \/ /\ stdout' = Append(stdout, TextLine("Err(..)"))
          /\ Panic("unwrap: toml::from_str")
          /\ UNCHANGED spec
       \/ \E s \in ContractSpecs :
            /\ stdout' = Append(stdout, TextLine("Ok(ContractSpec)"))
            /\ spec' = s
            /\ pc' = "deploy_contract"
            /\ UNCHANGED panic_msg
    /\ UNCHANGED <<cliVars, accounts, tokens, calldata, ctor_args, keystoreVars, rpcVars,
                   serdeVars>>

(***************************************************************************)
(* show_contract (lib.rs).                                                 *)
(***************************************************************************)
\* A variant of ClientPanics that builds a client for every network.
ClientNeverPanics(net) == FALSE

\* client(network) and class_hash(network) panic for Mainnet.
ClientPanics(net) == net = "Mainnet"
ClassHashPanics(net) == net = "Mainnet"

\* show_contract up to the call request: resolve the client, parse the
\* addresses, build the calldata, issue the balance_of_batch call.
ShowContract ==
    /\ pc = "show_contract"
    /\ IF ClientPanics(network)
         THEN Panic("Network not supported yet") /\ UNCHANGED <<calldata, calls>>
       ELSE IF ~FeltFromHexBeOk(args.contract_address)
         THEN Panic("unwrap: contract_address") /\ UNCHANGED <<calldata, calls>>
       ELSE IF \E i \in 1..Len(accounts) : ~FeltFromHexBeOk(accounts[i])
         THEN Panic("unwrap: account") /\ UNCHANGED <<calldata, calls>>
       ELSE IF ~TokensToFeltsOk(tokens)
         THEN Panic("unwrap: hex::decode_to_slice") /\ UNCHANGED <<calldata, calls>>
       ELSE /\ calldata' = ShowCalldata(accounts, tokens)
            /\ calls' = calls + 1
            /\ pc' = "call_wait"
            /\ UNCHANGED panic_msg
    /\ UNCHANGED <<cliVars, spec, accounts, tokens, ctor_args, stdout, deployVars, serdeVars>>

\* What show_contract prints for a call result.
PrintResult(result) ==
    IF Len(result) = 0 THEN <<TextLine("[]")>>
    ELSE <<TextLine("[")>>
            \o [i \in 1..Len(result) |-> Line("element", result[i], i # Len(result))]
            \o <<TextLine("]")>>

\* The provider answers the call: show_contract unwraps and prints.
CallAnswer ==
    /\ pc = "call_wait"
    /\ \/ Panic("unwrap: ProviderError") /\ UNCHANGED stdout
       \/ \E result \in CallResults :
            /\ stdout' = stdout \o PrintResult(result)
            /\ pc' = "exit"
            /\ UNCHANGED panic_msg
    /\ UNCHANGED <<cliVars, spec, accounts, tokens, calldata, ctor_args, keystoreVars,
                   rpcVars, serdeVars>>

(***************************************************************************)
(* deploy_contract and watch_tx (lib.rs).                                  *)
(***************************************************************************)
\* client, class_hash and resolve_keystore.
DeployResolve ==
    /\ pc = "deploy_contract"
    /\ IF ClientPanics(network) \/ ClassHashPanics(network)
         THEN Panic("Network not supported yet") /\ UNCHANGED keystoreVars
       ELSE \/ /\ keystore_checked' = TRUE
               /\ Panic("keystore file not found")
               /\ UNCHANGED <<password_prompted, keystore_read>>
            \/ /\ keystore_checked' = TRUE
               /\ password_prompted' = TRUE
               /\ Panic("unwrap: prompt_password")
               /\ UNCHANGED keystore_read
            \/ /\ keystore_checked' = TRUE
               /\ password_prompted' = TRUE
               /\ keystore_read' = TRUE
               /\ Panic("unwrap: from_keystore")
            \/ /\ keystore_checked' = TRUE
               /\ password_prompted' = TRUE
               /\ keystore_read' = TRUE
               /\ pc' = "deploy_build"
               /\ UNCHANGED panic_msg
    /\ UNCHANGED <<cliVars, spec, accounts, tokens, calldata, ctor_args, stdout, rpcVars,
                   serdeVars>>

\* The account, the constructor arguments and the fee estimation request.
DeployBuild ==
    /\ pc = "deploy_build"
    /\ IF ~FeltFromStrOk(args.address)
         THEN Panic("unwrap: address") /\ UNCHANGED <<ctor_args, estimates>>
       ELSE IF ~FeltFromHexBeOk(args.recipient)
         THEN Panic("unwrap: recipient") /\ UNCHANGED <<ctor_args, estimates>>
       ELSE IF ~TokensToFeltsOk(TokenNamesOf(spec.tokens))
         THEN Panic("unwrap: hex::decode_to_slice") /\ UNCHANGED <<ctor_args, estimates>>
       ELSE /\ ctor_args' = CtorArgs(spec, args.recipient)
            /\ estimates' = estimates + 1
            /\ pc' = "estimate_wait"
            /\ UNCHANGED panic_msg
    /\ UNCHANGED <<cliVars, spec, accounts, tokens, calldata, stdout, keystoreVars, calls,
                   sends, polls, sleeps, estimated_fee, sleeps_since_request, deployment_tx,
                   request_hash, answer, watch_result, serdeVars>>

\* A variant of AfterEstimate that goes on to send whatever the answer.
AfterEstimateIgnoringError(ok) == "send_wait"

\* Where deploy_contract goes on the answer to estimate_fee: unwrap.
AfterEstimate(ok) == IF ok THEN "send_wait" ELSE "panicked"

\* The provider answers the fee estimation; on success the deployment is sent.
EstimateAnswer ==
    /\ pc = "estimate_wait"
    /\ \E ok \in BOOLEAN :
         /\ estimated_fee' = IF ok THEN "Ok" ELSE "Err"
         /\ pc' = AfterEstimate(ok)
         /\ IF pc' = "send_wait"
              THEN sends' = sends + 1 /\ UNCHANGED panic_msg
              ELSE panic_msg' = "unwrap: estimate_fee" /\ UNCHANGED sends
    /\ UNCHANGED <<cliVars, spec, accounts, tokens, calldata, ctor_args, stdout, keystoreVars,
                   calls, estimates, polls, sleeps, sleeps_since_request, deployment_tx,
                   request_hash, answer, watch_result, serdeVars>>

\* The provider answers the submission: the transaction hash, or an error.
SendAnswer ==
    /\ pc = "send_wait"
    /\ \/ Panic("unwrap: send") /\ UNCHANGED deployment_tx
       \/ \E h \in TxHashes :
            /\ deployment_tx' = h
            /\ pc' = "watch_request"
            /\ UNCHANGED panic_msg
    /\ UNCHANGED <<cliVars, spec, accounts, tokens, calldata, ctor_args, stdout, keystoreVars,
                   calls, estimates, sends, polls, sleeps, estimated_fee,
                   sleeps_since_request, request_hash, answer, watch_result, serdeVars>>

\* The transaction_hash deploy_contract hands to watch_tx.
WatchedHash(tx) == tx

\* watch_tx: client.get_transaction_receipt(transaction_hash) is issued.
WatchRequest ==
    /\ pc = "watch_request"
    /\ request_hash' = WatchedHash(deployment_tx)
    /\ polls' = Inc(polls)
    /\ sleeps_since_request' = 0
    /\ pc' = "watch_wait"
    /\ UNCHANGED <<cliVars, spec, accounts, tokens, calldata, ctor_args, panic_msg, stdout,
                   keystoreVars, calls, estimates, sends, sleeps, estimated_fee,
                   deployment_tx, answer, watch_result, serdeVars>>

\* The provider answers the receipt request.
ReceiptAnswer ==
    /\ pc = "watch_wait"
    /\ answer' \in ReceiptAnswers
    /\ pc' = "watch_match"
    /\ UNCHANGED <<cliVars, spec, accounts, tokens, calldata, ctor_args, panic_msg, stdout,
                   keystoreVars, calls, estimates, sends, polls, sleeps, estimated_fee,
                   sleeps_since_request, deployment_tx, request_hash, watch_result,
                   serdeVars>>

\* Variants of MatchReceipt: one takes any receipt for a confirmation, one
\* keeps polling after a reverted receipt, one keeps polling after any error.
MatchReceiptAnyReceiptOk(ans) ==
    CASE ans.kind \in {"Succeeded", "Reverted"} -> [kind |-> "Ok", reason |-> ""]
      [] ans.kind = "TransactionHashNotFound" -> [kind |-> "Continue", reason |-> ""]
      [] OTHER -> [kind |-> "Provider", reason |-> ans.kind]

MatchReceiptRevertedRetries(ans) ==
    CASE ans.kind = "Succeeded" -> [kind |-> "Ok", reason |-> ""]
      [] ans.kind \in {"Reverted", "TransactionHashNotFound"} ->
            [kind |-> "Continue", reason |-> ""]
      [] OTHER -> [kind |-> "Provider", reason |-> ans.kind]

MatchReceiptRetriesErrors(ans) ==
    CASE ans.kind = "Succeeded" -> [kind |-> "Ok", reason |-> ""]
      [] ans.kind = "Reverted" -> [kind |-> "TransactionReverted", reason |-> ans.reason]
      [] OTHER -> [kind |-> "Continue", reason |-> ""]

\* The match of watch_tx: what the loop does with an answer.
MatchReceipt(ans) ==
    CASE ans.kind = "Succeeded" -> [kind |-> "Ok", reason |-> ""]
      [] ans.kind = "Reverted" -> [kind |-> "TransactionReverted", reason |-> ans.reason]
      [] ans.kind = "TransactionHashNotFound" -> [kind |-> "Continue", reason |-> ""]
      [] OTHER -> [kind |-> "Provider", reason |-> ans.kind]

\* watch_tx returns, or goes on to the sleep.
WatchMatch ==
    /\ pc = "watch_match"
    /\ LET m == MatchReceipt(answer)
       IN  IF m.kind = "Continue"
             THEN pc' = "watch_sleep" /\ UNCHANGED watch_result
             ELSE pc' = "watch_returned" /\ watch_result' = m
    /\ UNCHANGED <<cliVars, spec, accounts, tokens, calldata, ctor_args, panic_msg, stdout,
                   keystoreVars, calls, estimates, sends, polls, sleeps, estimated_fee,
                   sleeps_since_request, deployment_tx, request_hash, answer, serdeVars>>

\* A variant of AfterSleep that sleeps twice in a turn.
AfterTwoSleeps(n) == n + 2

\* The sleeps made once the one sleep at the end of a turn of the loop is over.
AfterSleep(n) == n + 1

\* tokio::time::sleep(poll_interval), then the loop starts over.
WatchSleep ==
    /\ pc = "watch_sleep"
    /\ sleeps' = Inc(sleeps)
    /\ sleeps_since_request' = AfterSleep(sleeps_since_request)
    /\ pc' = "watch_request"
    /\ UNCHANGED <<cliVars, spec, accounts, tokens, calldata, ctor_args, panic_msg, stdout,
                   keystoreVars, calls, estimates, sends, polls, estimated_fee,
                   deployment_tx, request_hash, answer, watch_result, serdeVars>>

\* deploy_contract unwraps what watch_tx returned.
DeployFinish ==
    /\ pc = "watch_returned"
    /\ IF watch_result.kind = "Ok"
         THEN pc' = "exit" /\ UNCHANGED panic_msg
         ELSE Panic("unwrap: watch_tx")
    /\ UNCHANGED <<cliVars, spec, accounts, tokens, calldata, ctor_args, stdout, keystoreVars,
                   rpcVars, serdeVars>>

Next ==
    \/ MainShowAll \/ MainShow \/ MainDeploy
    \/ ShowContract \/ CallAnswer
    \/ DeployResolve \/ DeployBuild \/ EstimateAnswer \/ SendAnswer
    \/ WatchRequest \/ ReceiptAnswer \/ WatchMatch \/ WatchSleep \/ DeployFinish

Spec == Init /\ [][Next]_vars

\* The runtime keeps driving the one task: every step of the program that is
\* enabled is eventually taken.  Nothing is assumed of the provider's answers.
FairSpec ==
    Spec /\ WF_vars(WatchRequest) /\ WF_vars(WatchMatch) /\ WF_vars(WatchSleep)
         /\ WF_vars(DeployFinish)

(***************************************************************************)
(* U256::cairo_deserialize on its own: a felt buffer is built, from single *)
(* felts and from serialised U256 values, and deserialised at an offset.   *)
(***************************************************************************)
\* Felts of the buffers: 1, 70000 and 2^128, which fits no u128.
FeltWide == [i \in 1..16 |-> IF i = 8 THEN 1 ELSE 0]
SampleFelts == {FeltOne, FeltBig, FeltWide}
SampleU256s ==
    { MkU256(NatToLimbs(7, 8), Zeros(8)),
      MkU256([i \in 1..8 |-> 65535], NatToLimbs(9, 8)) }

InitU256 ==
    /\ pc = "u256"
    /\ command = "None" /\ network = "Sepolia" /\ args = NoArgs
    /\ spec = NoSpec
    /\ accounts = <<>>
    /\ tokens = <<>>
    /\ calldata = <<>>
    /\ ctor_args = <<>>
    /\ panic_msg = ""
    /\ stdout = <<>>
    /\ keystore_checked = FALSE
    /\ password_prompted = FALSE
    /\ keystore_read = FALSE
    /\ calls = 0 /\ estimates = 0 /\ sends = 0 /\ polls = 0 /\ sleeps = 0
    /\ estimated_fee = "None"
    /\ sleeps_since_request = 0
    /\ deployment_tx = 0
    /\ request_hash = 0
    /\ answer = NoAnswer
    /\ watch_result = NoResult
    /\ felts = <<>>
    /\ offset = 0
    /\ deserialized = NotDeserialized

programVars == <<pc, cliVars, spec, accounts, tokens, calldata, ctor_args, panic_msg, stdout,
                 keystoreVars, rpcVars>>

\* One more felt in the buffer.
PushFelt ==
    /\ deserialized.kind = "None"
    /\ Len(felts) < MaxBuf
    /\ \E f \in SampleFelts : felts' = Append(felts, f)
    /\ UNCHANGED <<programVars, offset, deserialized>>

\* U256::cairo_serialize of a value, appended to the buffer.
PushU256 ==
    /\ deserialized.kind = "None"
    /\ Len(felts) + 2 <= MaxBuf
    /\ \E u \in SampleU256s : felts' = felts \o U256CairoSerialize(u)
    /\ UNCHANGED <<programVars, offset, deserialized>>

\* U256::cairo_deserialize(felts, off).
Deserialize ==
    /\ deserialized.kind = "None"
    /\ \E off \in 0..(MaxBuf + 1) :
         /\ offset' = off
         /\ deserialized' = U256CairoDeserialize(felts, off)
    /\ UNCHANGED <<programVars, felts>>

NextU256 == PushFelt \/ PushU256 \/ Deserialize

SpecU256 == InitU256 /\ [][NextU256]_vars

(***************************************************************************)
(* Properties.                                                             *)
(***************************************************************************)
NotFound == "TransactionHashNotFound"

\* The 256-bit number a 64-digit hex string denotes, big-endian: 16 limbs of
\* four digits each.
NameLimbs(name) ==
    [j \in 1..16 |-> 4096 * HexVal(name[4 * j - 3]) + 256 * HexVal(name[4 * j - 2])
                        + 16 * HexVal(name[4 * j - 1]) + HexVal(name[4 * j])]
\* n mod 2^128 and n div 2^128 of a 16-limb number, as felts.
LowHalfFelt(n) == Zeros(8) \o SubSeq(n, 9, 16)
HighHalfFelt(n) == Zeros(8) \o SubSeq(n, 1, 8)

\* Whether the 2k felts of data after position base are the U256 encodings,
\* low then high, of the token names, in order.
TokenIdsEncoded(data, base, names) ==
    \A i \in 1..Len(names) :
        /\ data[base + 2 * i - 1] = LowHalfFelt(NameLimbs(names[i]))
        /\ data[base + 2 * i] = HighHalfFelt(NameLimbs(names[i]))

\* C1: deploy_contract returns normally only when the last receipt answer was
\* a Succeeded receipt, asked for the very hash the submission returned.
C1_ReturnsOnlyAfterSucceeded ==
    (command = "Deploy" /\ pc = "exit") =>
        /\ answer.kind = "Succeeded"
        /\ watch_result.kind = "Ok"
        /\ deployment_tx \in TxHashes
        /\ request_hash = deployment_tx
        /\ polls >= 1

C1_Witness ==
    /\ command = "Deploy" /\ pc = "exit"
    /\ polls >= 2 /\ deployment_tx = 2 /\ answer.kind = "Succeeded"

\* C2: fee estimation, then submission, then polling: at most one estimation
\* and one submission; the submission is issued only on a successful
\* estimation; the first poll only once the submission returned a hash; a
\* failed step panics, and nothing happens after a panic.
C2_StepOrder ==
    /\ [](estimates <= 1 /\ sends <= 1)
    /\ [][ /\ (sends' # sends =>
                 estimated_fee' = "Ok" /\ estimates = 1 /\ sends = 0 /\ polls = 0)
           /\ (estimated_fee' = "Err" => pc' = "panicked" /\ sends' = 0 /\ polls' = 0)
           /\ (polls = 0 /\ polls' # 0 =>
                 sends = 1 /\ deployment_tx \in TxHashes /\ request_hash' = deployment_tx)
           /\ (pc = "send_wait" /\ deployment_tx' \notin TxHashes =>
                 pc' = "panicked" /\ polls' = 0)
           /\ (pc = "panicked" => UNCHANGED vars)
         ]_vars

C2_Witness ==
    /\ pc = "watch_wait" /\ estimates = 1 /\ sends = 1 /\ polls = 1
    /\ estimated_fee = "Ok" /\ request_hash = deployment_tx

\* C3: on a Reverted receipt watch_tx returns TransactionReverted with the
\* receipt's reason in that very step, without another poll or sleep, and
\* deploy_contract then panics.
C3_RevertedStops ==
    /\ [](watch_result.kind = "TransactionReverted" =>
            /\ pc \in {"watch_returned", "panicked"}
            /\ answer.kind = "Reverted"
            /\ watch_result.reason = answer.reason
            /\ sleeps_since_request = 0)
    /\ [][ /\ (pc = "watch_match" /\ answer.kind = "Reverted" =>
                 /\ pc' = "watch_returned"
                 /\ watch_result' = [kind |-> "TransactionReverted", reason |-> answer.reason]
                 /\ polls' = polls /\ sleeps' = sleeps)
           /\ (pc = "watch_returned" /\ watch_result.kind = "TransactionReverted" =>
                 pc' = "panicked" /\ polls' = polls /\ sleeps' = sleeps)
         ]_vars

C3_Witness ==
    /\ pc = "panicked" /\ watch_result = [kind |-> "TransactionReverted", reason |-> "out of gas"]
    /\ polls >= 2

\* C4: every token id of the calldata show_contract and deploy_contract build
\* is the U256 with low = n mod 2^128 and high = n div 2^128, low first.
C4_TokenIdHalves ==
    /\ pc = "call_wait" => TokenIdsEncoded(calldata, Len(accounts) + 2, tokens)
    /\ pc = "estimate_wait" =>
          TokenIdsEncoded(ctor_args, Len(ByteArraySerialize(spec.base_uri)) + 2,
                          TokenNamesOf(spec.tokens))

\* C5: the constructor calldata is the base_uri byte array, the recipient,
\* the token ids (length first, one U256 per token: the two halves of the
\* i-th token's id) and the token values (length first, the i-th a U256 with
\* low = the i-th token's value and high = 0).
C5_CtorLayout ==
    ctor_args # <<>> =>
        LET uri == ByteArraySerialize(spec.base_uri)
            n == Len(spec.tokens)
            ids == Len(uri) + 1
            vals == ids + 1 + 2 * n
        IN  /\ Len(ctor_args) = vals + 1 + 2 * n
            /\ SubSeq(ctor_args, 1, Len(uri)) = uri
            /\ ctor_args[Len(uri) + 1] = FeltFromHexBe(args.recipient)
            /\ ctor_args[ids + 1] = NatToLimbs(n, 16)
            /\ ctor_args[vals + 1] = NatToLimbs(n, 16)
            /\ \A i \in 1..n :
                 LET id == NameLimbs(spec.tokens[i].name)
                 IN  /\ {ctor_args[ids + 2 * i], ctor_args[ids + 2 * i + 1]}
                            = {LowHalfFelt(id), HighHalfFelt(id)}
                     /\ ctor_args[vals + 2 * i] = Zeros(12) \o spec.tokens[i].value
                     /\ ctor_args[vals + 2 * i + 1] = Zeros(16)

C5_Witness ==
    /\ pc = "estimate_wait"
    /\ Len(spec.tokens) = 2
    /\ spec.tokens[1].name = NameMixed /\ spec.tokens[2].name = NameOne
    /\ Len(spec.base_uri) = 33

\* C6: on Mainnet no RPC request is ever issued, the keystore is never read
\* and the password never prompted, and show_contract and deploy_contract
\* end in the panic "Network not supported yet".
C6_MainnetAborts ==
    network = "Mainnet" =>
        /\ calls = 0 /\ estimates = 0 /\ sends = 0 /\ polls = 0
        /\ ~keystore_read /\ ~password_prompted
        /\ pc \in {"main", "show_contract", "deploy_contract", "panicked"}
        /\ (pc = "panicked" /\ (tokens # <<>> \/ spec # NoSpec)
               => panic_msg = "Network not supported yet")

C6_Witness ==
    /\ network = "Mainnet" /\ command = "Deploy" /\ spec # NoSpec
    /\ pc = "panicked" /\ panic_msg = "Network not supported yet"

\* C7: cairo_deserialize returns the Deserialize error whenever fewer than
\* two felts remain from offset, and the U256 of the two felts when both are
\* there and fit 128 bits.
C7_DeserializeShortBuffer ==
    deserialized.kind # "None" =>
        /\ (offset + 1 >= Len(felts) => deserialized.kind = "ErrDeserialize")
        /\ ((offset + 1 < Len(felts)
                /\ FeltFitsU128(felts[offset + 1]) /\ FeltFitsU128(felts[offset + 2]))
              => deserialized = [kind |-> "Ok",
                                 value |-> [low |-> SubSeq(felts[offset + 1], 9, 16),
                                            high |-> SubSeq(felts[offset + 2], 9, 16)]])

\* C8: a receipt request after the first follows a TransactionHashNotFound
\* answer and exactly one sleep; that answer always leads to the sleep and
\* the next request; every other answer ends the loop at once, an error as
\* the Provider error; nothing is requested once watch_tx has returned.
C8_PollLoop ==
    [][ /\ (pc = "watch_request" /\ pc' = "watch_wait" /\ polls >= 1 =>
              answer.kind = NotFound /\ sleeps_since_request = 1)
        /\ (pc = "watch_match" /\ answer.kind = NotFound =>
              pc' = "watch_sleep" /\ watch_result' = NoResult)
        /\ (pc = "watch_sleep" => pc' = "watch_request")
        /\ (pc = "watch_match" /\ answer.kind # NotFound =>
              pc' = "watch_returned" /\ polls' = polls /\ sleeps' = sleeps)
        /\ (pc = "watch_match" /\ answer.kind \notin {"Succeeded", "Reverted", NotFound} =>
              watch_result' = [kind |-> "Provider", reason |-> answer.kind])
        /\ (watch_result.kind # "None" =>
              /\ pc' \notin {"watch_request", "watch_wait", "watch_sleep"}
              /\ polls' = polls /\ sleeps' = sleeps)
      ]_vars

C8_Witness ==
    /\ pc = "watch_returned" /\ watch_result.kind = "Provider"
    /\ polls = 2 /\ sleeps = 1

\* C9: once an answer other than TransactionHashNotFound has arrived,
\* watch_tx returns and deploy_contract ends; watch_tx has returned only on
\* such an answer; and a TransactionHashNotFound answer leads to the sleep
\* however many polls were made.
C9_ReturnsOnAnswer ==
    /\ (pc = "watch_match" /\ answer.kind # NotFound)
          ~> (watch_result.kind # "None" /\ pc \in {"exit", "panicked"})
    /\ [](watch_result.kind # "None" => answer.kind \notin {"None", NotFound})
    /\ [][pc = "watch_match" /\ answer.kind = NotFound /\ polls = MaxPolls
            => pc' = "watch_sleep" /\ polls' = MaxPolls]_vars

C9_Witness ==
    /\ watch_result.kind # "None" /\ pc = "exit"
    /\ polls = MaxPolls /\ sleeps = MaxPolls

\* C10: ShowAll and Show issue one balance_of_batch call whose calldata is
\* the accounts array then the token-id array, both of the same length, the
\* token ids being the tokens given, in order.
C10_BatchArrays ==
    (pc = "call_wait" /\ command \in {"ShowAll", "Show"}) =>
        /\ calls = 1
        /\ \E a, t \in 0..(MaxTokens + 1) :
             /\ calldata[1] = NatToLimbs(a, 16)
             /\ a + 2 <= Len(calldata)
             /\ calldata[a + 2] = NatToLimbs(t, 16)
             /\ Len(calldata) = a + 2 + 2 * t
             /\ t = Len(tokens)
             /\ command = "ShowAll" => t = Len(spec.tokens)
             /\ a = t

=============================================================================
